---- MODULE Spec2Model ----
(***************************************************************************)
(* Scene illumination and exposure control of meshgl:                      *)
(*   AutoExposureController  (scripts/render/AutoExposureController.js)    *)
(*   EnvironmentController   (scripts/render/EnvironmentController.js)     *)
(*   LightsController        (scripts/render/LightsController.js)          *)
(*   PostProcessingPipeline  (the pass chain built at construction)        *)
(*                                                                         *)
(* Numbers.  JavaScript numbers are modelled in fixed point: exposures and *)
(* luminances in thousandths, light intensities in hundredths, light       *)
(* positions in thousandths.  Every product is rounded the same way, so    *)
(* equalities between values the code computes by the same expression are  *)
(* kept.                                                                   *)
(*                                                                         *)
(* Each controller is an object of its own; no controller reads a field of *)
(* another.  A behaviour drives one controller (variable driven), chosen   *)
(* in the initial state.                                                   *)
(***************************************************************************)
EXTENDS Integers, Sequences, FiniteSets, TLC

VARIABLES
    driven,   \* the controller this behaviour drives
    ae,       \* AutoExposureController: its fields and the exposure uniform
    aeLog,    \* history of the exposure controller (what the last call did)
    env,      \* EnvironmentController: its fields, the scene and renderer
              \* fields it writes, and the render targets the GPU holds
    envLoads, \* setPreset calls awaiting their texture
    envLog,   \* history of the environment controller
    lc,       \* LightsController: its fields, its lights, and the indicator
              \* objects the scene and the GPU hold
    lcLog,    \* history of the lights controller
    pp,       \* PostProcessingPipeline: the passes of its composer, in order
    ppLog     \* history of the pipeline (whether a pass has been toggled)

vars == <<driven, ae, aeLog, env, envLoads, envLog, lc, lcLog, pp, ppLog>>
ppVars == <<pp, ppLog>>
aeVars == <<ae, aeLog>>
envVars == <<env, envLoads, envLog>>
lcVars == <<lc, lcLog>>

----------------------------------------------------------------------------
(* JavaScript helpers *)

\* x ?? d, with an absent value as the empty set and a present one as {v}
Nullish(opt, d) == IF opt = {} THEN d ELSE CHOOSE v \in opt : TRUE

\* THREE.MathUtils.clamp
Clamp(x, lo, hi) == IF x < lo THEN lo ELSE IF x > hi THEN hi ELSE x

\* THREE.MathUtils.lerp(x, y, t) = (1 - t) * x + t * y, t in thousandths,
\* rounded to the nearest thousandth
Lerp(x, y, t) == ((1000 - t) * x + t * y + 500) \div 1000

\* a % n of JavaScript: the remainder takes the sign of the dividend
JsRem(a, n) == IF a >= 0 THEN a % n ELSE 0 - ((0 - a) % n)

----------------------------------------------------------------------------
(* AutoExposureController *)

\* constructor parameters, in thousandths
target == 450
min == 500
max == 2500
smooth == 120
brightThreshold == 650
\* the literals of sampleSceneLuminance and applyAutoExposure
luminanceSmooth == 350
luminanceFloor == 50
luminanceCeiling == 1200

\* update() calls of one behaviour
MaxFrames == 2
\* frames of one run of grey frames: the smoothed luminance, 0.5 at first,
\* settles at 0.4 with the tenth frame of that luminance
SettleFrames == 11
\* frames of one run of white frames: long enough for the smoothed luminance
\* and then the exposure to come to rest
SustainedFrames == 64

\* manual exposures the caller passes, in thousandths
ExposureValues == {600, 2000}
\* the exposure field of a state object: absent, or a value
ExposureOptions == {{}} \cup {{v} : v \in ExposureValues}
\* the autoExposure field of a state object: absent, or a boolean
AutoOptions == {{}, {TRUE}, {FALSE}}
\* the colour of a frame read back from the 8x8 target (all 64 pixels alike)
FramePixels == {<<0, 0, 0>>, <<115, 115, 115>>, <<255, 255, 255>>}
\* what the registered observer does when called
ObserverModes == {"returns", "throws"}
\* the grey levels of the frames of a scene whose brightness jumps: 102/255
\* is a luminance of 0.4, 230/255 one of 0.9
GreyBytes == {102, 230}
\* the render target that is active when update() is called: the screen
\* (null) or a buffer of the effect composer
RenderTargets == {"screen", "composer"}

\* Rec. 709 luminance of one pixel, bytes to thousandths
PixelLuminance(p) == ((2126 * p[1] + 7152 * p[2] + 722 * p[3]) \div 255) \div 10

\* Math.pow(x, 1.8) = x * (x^4)^(1/5), for x in [0, 1] given in thousandths;
\* the fifth root is taken at a resolution of 1/64 (32-bit integers)
FifthRoot(v) == CHOOSE r \in 0..64 :
                    /\ r * r * r * r * r <= v
                    /\ (r + 1) * (r + 1) * (r + 1) * (r + 1) * (r + 1) > v
Pow18(x) ==
    LET x64 == (x * 64 + 500) \div 1000
        w64 == FifthRoot(x64 * x64 * x64 * x64 * 64)
    IN  (x64 * w64 * 1000) \div (64 * 64)

\* setExposure: the field, the uniform, then the observer (which may throw)
setExposure(s, value) ==
    [s EXCEPT !.currentExposure = value, !.exposureUniform = value]

\* init(initialState)
init(s, exposure, autoExposure) ==
    LET m == Nullish(exposure, 1000)
    IN  [s EXCEPT !.manualExposure = m,
                  !.currentExposure = m,
                  !.autoExposureValue = m,
                  !.enabled = Nullish(autoExposure, FALSE),
                  !.exposureUniform = m]

\* setEnabled(enabled), and two slips of it: the auto value is not seeded
\* on enabling; the manual exposure is not restored on disabling
SetEnabledNotSeeding(s, enabled) ==
    IF enabled THEN [s EXCEPT !.enabled = TRUE]
    ELSE setExposure([s EXCEPT !.enabled = FALSE], s.manualExposure)
SetEnabledNotRestoring(s, enabled) ==
    IF enabled
    THEN [s EXCEPT !.enabled = TRUE, !.autoExposureValue = s.currentExposure]
    ELSE [s EXCEPT !.enabled = FALSE]
setEnabled(s, enabled) ==
    IF enabled
    THEN [s EXCEPT !.enabled = TRUE, !.autoExposureValue = s.currentExposure]
    ELSE setExposure([s EXCEPT !.enabled = FALSE], s.manualExposure)

\* setManualExposure(value)
setManualExposure(s, value) ==
    LET t == [s EXCEPT !.manualExposure = value]
    IN  IF ~s.enabled THEN setExposure(t, value) ELSE t

\* sampleSceneLuminance: readback is a pixel colour, or {} when
\* readRenderTargetPixels throws
sampleSceneLuminance(s, readback) ==
    IF readback = {} THEN s
    ELSE LET avg == PixelLuminance(CHOOSE p \in readback : TRUE)
         IN  [s EXCEPT !.averageLuminance =
                 Clamp(Lerp(s.averageLuminance, avg, luminanceSmooth), 0, 1000)]

\* the target exposure applyAutoExposure derives from averageLuminance
TargetExposure(averageLuminance) ==
    LET luminance == Clamp(averageLuminance, luminanceFloor, luminanceCeiling)
        thresholdExposure == (target * 1000) \div brightThreshold
        normalizedBrightness ==
            ((luminance - brightThreshold) * 1000)
                \div (luminanceCeiling - brightThreshold)
        curve == Pow18(normalizedBrightness)
        raw == IF luminance > brightThreshold
               THEN Lerp(thresholdExposure, min, curve)
               ELSE (target * 1000) \div luminance
    IN  Clamp(raw, min, max)

\* whether applyAutoExposure takes the branch for very bright scenes
BrightBranch(averageLuminance) ==
    Clamp(averageLuminance, luminanceFloor, luminanceCeiling) > brightThreshold

\* applyAutoExposure
applyAutoExposure(s) ==
    IF ~s.enabled THEN s
    ELSE LET a == Lerp(s.autoExposureValue,
                       TargetExposure(s.averageLuminance), smooth)
         IN  setExposure([s EXCEPT !.autoExposureValue = a], a)

\* the calls sampleSceneLuminance makes on the renderer, in order, when the
\* renderer's active render target is previousTarget
SampleCalls(previousTarget) ==
    << <<"setRenderTarget", "luminanceRenderTarget">>,
       <<"render", "luminanceRenderTarget">>,
       <<"setRenderTarget", previousTarget>>,
       <<"readRenderTargetPixels", "luminanceRenderTarget">> >>

\* the renderer's active render target after a sequence of calls
RECURSIVE ActiveTarget(_, _)
ActiveTarget(calls, active) ==
    IF calls = <<>> THEN active
    ELSE ActiveTarget(Tail(calls),
                      IF Head(calls)[1] = "setRenderTarget"
                      THEN Head(calls)[2] ELSE active)

\* update(unlitMode), and a slip of it: the unlit flag is not looked at
UpdateIgnoringUnlit(s, unlitMode, readback) ==
    applyAutoExposure(sampleSceneLuminance(s, readback))
update(s, unlitMode, readback) ==
    IF unlitMode THEN s
    ELSE applyAutoExposure(sampleSceneLuminance(s, readback))

\* the calls update(unlitMode) makes on the renderer
UpdateCalls(unlitMode, previousTarget) ==
    IF unlitMode THEN <<>> ELSE SampleCalls(previousTarget)

\* resetLuminance, and a slip of it: the smoothed luminance is kept
ResetKeepingLuminance(s) ==
    [s EXCEPT !.autoExposureValue = s.currentExposure]
resetLuminance(s) ==
    [s EXCEPT !.averageLuminance = target,
              !.autoExposureValue = s.currentExposure]

\* applyStateSnapshot(state); the observer throwing inside setEnabled ends
\* the call before its own setExposure, which would write the same value
\* (and a slip of it: the exposure is written in Auto mode too)
ApplyStateSnapshotWritingExposure(s, exposure, autoExposure) ==
    LET m == Nullish(exposure, 1000)
    IN  setExposure(setEnabled([s EXCEPT !.manualExposure = m,
                                         !.autoExposureValue = m],
                               Nullish(autoExposure, FALSE)), m)
applyStateSnapshot(s, exposure, autoExposure) ==
    LET m == Nullish(exposure, 1000)
        t == setEnabled([s EXCEPT !.manualExposure = m,
                                  !.autoExposureValue = m],
                        Nullish(autoExposure, FALSE))
    IN  IF ~t.enabled THEN setExposure(t, m) ELSE t

\* the state after the constructor
AeConstructed ==
    [enabled |-> FALSE, manualExposure |-> 1000, currentExposure |-> 1000,
     autoExposureValue |-> 1000, averageLuminance |-> 500,
     exposureUniform |-> 1000]

\* what a call left behind: its name; whether auto-exposure was enabled
\* when it began; whether it rendered off screen; whether it called the
\* observer; whether the observer's exception left the call; the update()
\* calls so far; the manual exposure given last (by setManualExposure, init
\* or applyStateSnapshot) and whether that was by a setManualExposure call
\* made while auto-exposure was enabled; the argument of the last
\* setManualExposure call ({}: there was none); whether the renderer's
\* active render target is the one it was when the call began; whether
\* readRenderTargetPixels threw in the call; whether every update() so far
\* has sampled a frame of the target luminance
AeEntry(op, rendered, notified, threw) ==
    [op |-> op, wasEnabled |-> ae.enabled, rendered |-> rendered,
     notified |-> notified, threw |-> notified /\ threw,
     restored |-> TRUE, readFailed |-> FALSE, steady |-> aeLog.steady,
     frames |-> aeLog.frames, lastManual |-> aeLog.lastManual,
     setInAuto |-> aeLog.setInAuto, lastSet |-> aeLog.lastSet]

AeInit ==
    /\ ae = AeConstructed
    /\ aeLog = [op |-> "constructor", wasEnabled |-> FALSE,
                rendered |-> FALSE, notified |-> FALSE, threw |-> FALSE,
                restored |-> TRUE, readFailed |-> FALSE, steady |-> TRUE,
                frames |-> 0, lastManual |-> 1000, setInAuto |-> FALSE,
                lastSet |-> {}]

\* a call on the exposure controller: the other controllers stay as they are
AeDriven == driven = "exposure" /\ UNCHANGED <<driven, envVars, lcVars, ppVars>>

AeCallInit ==
    /\ AeDriven
    /\ \E e \in ExposureOptions, a \in AutoOptions :
        /\ ae' = init(ae, e, a)
        /\ aeLog' = [AeEntry("init", FALSE, FALSE, FALSE)
                        EXCEPT !.lastManual = Nullish(e, 1000),
                               !.setInAuto = FALSE]

AeSetEnabled ==
    /\ AeDriven
    /\ \E b \in BOOLEAN, o \in ObserverModes :
        /\ ae' = setEnabled(ae, b)
        /\ aeLog' = AeEntry(IF b THEN "setEnabled(true)" ELSE "setEnabled(false)",
                            FALSE, ~b, o = "throws")

AeSetManualExposure ==
    /\ AeDriven
    /\ \E v \in ExposureValues, o \in ObserverModes :
        /\ ae' = setManualExposure(ae, v)
        /\ aeLog' = [AeEntry("setManualExposure", FALSE, ~ae.enabled,
                             o = "throws")
                        EXCEPT !.lastManual = v, !.setInAuto = ae.enabled,
                               !.lastSet = {v}]

AeUpdate ==
    /\ AeDriven
    /\ aeLog.frames < MaxFrames
    /\ \E unlit \in BOOLEAN, rb \in {{}} \cup {{p} : p \in FramePixels},
          o \in ObserverModes, prev \in RenderTargets :
        LET calls == UpdateCalls(unlit, prev)
        IN  /\ ae' = update(ae, unlit, rb)
            /\ aeLog' = [AeEntry(IF unlit THEN "update(unlit)" ELSE "update",
                                 \E i \in DOMAIN calls : calls[i][1] = "render",
                                 ~unlit /\ ae.enabled, o = "throws")
                            EXCEPT !.frames = aeLog.frames + 1,
                                   !.restored = ActiveTarget(calls, prev) = prev,
                                   !.steady =
                                       /\ @
                                       /\ ~unlit
                                       /\ \E p \in rb : PixelLuminance(p) = target,
                                   !.readFailed =
                                       /\ rb = {}
                                       /\ \E i \in DOMAIN calls :
                                              calls[i][1] = "readRenderTargetPixels"]

AeResetLuminance ==
    /\ AeDriven
    /\ ae' = resetLuminance(ae)
    /\ aeLog' = AeEntry("resetLuminance", FALSE, FALSE, FALSE)

AeApplyStateSnapshot ==
    /\ AeDriven
    /\ \E e \in ExposureOptions, a \in AutoOptions, o \in ObserverModes :
        /\ ae' = applyStateSnapshot(ae, e, a)
        /\ aeLog' = [AeEntry("applyStateSnapshot", FALSE,
                             ~Nullish(a, FALSE), o = "throws")
                        EXCEPT !.lastManual = Nullish(e, 1000),
                               !.setInAuto = FALSE]

\* a viewer that turns auto-exposure on when it starts and then renders
\* grey frames: init({autoExposure: true}) right after the constructor
AeStartAuto ==
    /\ driven = "frames"
    /\ UNCHANGED <<driven, envVars, lcVars, ppVars>>
    /\ aeLog.op = "constructor"
    /\ ae' = init(ae, {}, {TRUE})
    /\ aeLog' = AeEntry("init", FALSE, FALSE, FALSE)

\* update() on a frame of one grey level, the observer returning
AeGreyFrame ==
    /\ driven = "frames"
    /\ UNCHANGED <<driven, envVars, lcVars, ppVars>>
    /\ aeLog.frames < SettleFrames
    /\ \E b \in GreyBytes, prev \in RenderTargets :
        LET calls == UpdateCalls(FALSE, prev)
        IN  /\ ae' = update(ae, FALSE, {<<b, b, b>>})
            /\ aeLog' = [AeEntry("update",
                                 \E i \in DOMAIN calls : calls[i][1] = "render",
                                 ae.enabled, FALSE)
                            EXCEPT !.frames = aeLog.frames + 1,
                                   !.restored = ActiveTarget(calls, prev) = prev,
                                   !.steady =
                                       @ /\ PixelLuminance(<<b, b, b>>) = target]

\* update() on a frame whose every pixel is full white, the observer
\* returning
AeWhiteFrame ==
    /\ driven = "frames"
    /\ UNCHANGED <<driven, envVars, lcVars, ppVars>>
    /\ aeLog.frames < SustainedFrames
    /\ \E prev \in RenderTargets :
        LET calls == UpdateCalls(FALSE, prev)
        IN  /\ ae' = update(ae, FALSE, {<<255, 255, 255>>})
            /\ aeLog' = [AeEntry("update",
                                 \E i \in DOMAIN calls : calls[i][1] = "render",
                                 ae.enabled, FALSE)
                            EXCEPT !.frames = aeLog.frames + 1,
                                   !.restored = ActiveTarget(calls, prev) = prev,
                                   !.steady = FALSE]

AeNext ==
    \/ AeCallInit
    \/ AeSetEnabled
    \/ AeSetManualExposure
    \/ AeUpdate
    \/ AeResetLuminance
    \/ AeApplyStateSnapshot

----------------------------------------------------------------------------
(* EnvironmentController *)

\* constructor options: the preset table, the moods, the initial preset
Presets == {"studio", "sunset"}
\* moods?.[preset] ?? null: every preset of the table has a mood
Mood(preset) == IF preset = "studio" THEN "studio mood" ELSE "sunset mood"
\* what a caller passes to setPreset: a preset, an id not in the table, ""
PresetArgs == Presets \cup {"attic", ""}

\* setPreset calls awaiting their texture at one time
MaxPending == 2

\* values callers pass ({}: undefined)
StrengthArgs == {{}, {0 - 500}}
BlurrinessArgs == {{}, {0}, {1500}}
RotationArgs == {{}, {0 - 90}}
ColorArgs == {{}, {"#202020"}}

\* GPU objects (gpu.released: the textures dispose() has been called on;
\* the controller calls it on none).  k: "null", "texture" (a decoded image), "pmrem" (the
\* convolved render target), "rotation" (the rotation render target);
\* p: the preset a texture was loaded for; n: which object of its kind (0: a
\* render target that has been disposed)
Null == [k |-> "null", p |-> "", n |-> 0]
Texture(p, n) == [k |-> "texture", p |-> p, n |-> n]
\* whether sourceTexture.image (or .image.data, .source.data) has a width:
\* a property of the file the preset names
HasWidth(texture) == texture.p # "sunset"

\* the objects the controller and the scene refer to
Referenced(s) == {s.environmentRenderTarget, s.rotationRenderTarget,
                  s.currentEnvironmentTexture,
                  s.scene.environment, s.scene.background}
                 \cup {s.cache[p] : p \in Presets}
\* the first number no held object of the kind (and preset) bears
FreshNumber(s, k, p) ==
    LET used == {o.n : o \in {h \in s.gpu.live \cup Referenced(s) :
                                h.k = k /\ h.p = p}}
    IN  CHOOSE i \in 1..8 : i \notin used /\ \A j \in 1..(i - 1) : j \in used
\* new THREE.WebGLRenderTarget / pmremGenerator.fromEquirectangular: a new
\* object
NewRenderTarget(s, k) == [k |-> k, p |-> "", n |-> FreshNumber(s, k, "")]

\* the GPU after creating o: it is live, and the high-water mark of its kind
\* is kept
Created(gpu, o) ==
    LET live == gpu.live \cup {o}
        count == Cardinality({x \in live : x.k = o.k})
    IN  [gpu EXCEPT !.live = live,
                    !.peak[o.k] = IF count > @ THEN count ELSE @]
\* a reference to o once o has been disposed: the object is gone
Gone(o) == [o EXCEPT !.n = 0]
\* renderTarget.dispose(): the GPU frees o; whoever still refers to o now
\* refers to a disposed object
Disposed(s, o) ==
    LET ref(x) == IF x = o THEN Gone(o) ELSE x
    IN  [s EXCEPT !.gpu.live = @ \ {o},
                  !.environmentRenderTarget = ref(@),
                  !.rotationRenderTarget = ref(@),
                  !.scene.environment = ref(@),
                  !.scene.background = ref(@)]

\* "Dispose previous targets" of _applyEnvironment, and a slip of it that
\* drops the reference without disposing
ForgetEnvironmentTarget(s) == [s EXCEPT !.environmentRenderTarget = Null]
DisposeEnvironmentTarget(s) ==
    IF s.environmentRenderTarget # Null
    THEN [Disposed(s, s.environmentRenderTarget)
             EXCEPT !.environmentRenderTarget = Null]
    ELSE s

\* _createRotatedTexture(sourceTexture, rotationDegrees): the controller
\* after the call, and the texture returned
\* (and a slip of it: the rotation is always skipped)
CreateRotatedTextureSkipping(s, sourceTexture, rotationDegrees) ==
    [s |-> s, texture |-> sourceTexture]
_createRotatedTexture(s, sourceTexture, rotationDegrees) ==
    IF sourceTexture = Null THEN [s |-> s, texture |-> sourceTexture]
    ELSE
    LET s1 == IF s.rotationRenderTarget # Null
              THEN [Disposed(s, s.rotationRenderTarget)
                       EXCEPT !.rotationRenderTarget = Null]
              ELSE s
        rt == NewRenderTarget(s1, "rotation")
    IN  IF ~HasWidth(sourceTexture) THEN [s |-> s1, texture |-> sourceTexture]
        ELSE [s |-> [s1 EXCEPT !.gpu = Created(@, rt),
                               !.rotationRenderTarget = rt],
              texture |-> rt]

\* _applyEnvironment (and a slip of it: with the background switched off the
\* scene's background is left as it was)
ApplyEnvironmentKeepingBackground(s) ==
    IF ~(s.enabled /\ s.currentEnvironmentTexture # Null)
    THEN [s EXCEPT !.scene.environment = Null,
                   !.scene.environmentIntensity = 0,
                   !.scene.background = Null,
                   !.clearColor = <<s.fallbackColor, 1>>,
                   !.notified = <<Null, 0>>]
    ELSE
    LET s1 == DisposeEnvironmentTarget(s)
        r1 == IF s1.rotation # 0
              THEN _createRotatedTexture(s1, s1.currentEnvironmentTexture,
                                         s1.rotation)
              ELSE [s |-> s1, texture |-> s1.currentEnvironmentTexture]
        sourceTexture == r1.texture
        renderTarget == NewRenderTarget(r1.s, "pmrem")
        s2 == [r1.s EXCEPT !.gpu = Created(@, renderTarget),
                           !.environmentRenderTarget = renderTarget,
                           !.scene.environment = renderTarget,
                           !.scene.environmentIntensity = s.strength,
                           !.notified = <<renderTarget, s.strength>>]
        r2 == IF s2.rotation # 0
              THEN _createRotatedTexture(s2, s2.currentEnvironmentTexture,
                                         s2.rotation)
              ELSE [s |-> s2, texture |-> s2.currentEnvironmentTexture]
        bgTexture == IF s.blurriness > 0 THEN renderTarget ELSE r2.texture
    IN  IF s.backgroundEnabled
        THEN [r2.s EXCEPT !.scene.background = bgTexture,
                          !.scene.backgroundBlurriness = s.blurriness,
                          !.scene.backgroundIntensity = s.strength]
        ELSE [s2 EXCEPT !.scene.backgroundBlurriness = 0,
                        !.scene.backgroundIntensity = 1000,
                        !.clearColor = <<s.fallbackColor, 1>>]
_applyEnvironment(s) ==
    IF ~(s.enabled /\ s.currentEnvironmentTexture # Null)
    THEN [s EXCEPT !.scene.environment = Null,
                   !.scene.environmentIntensity = 0,
                   !.scene.background = Null,
                   !.clearColor = <<s.fallbackColor, 1>>,
                   !.notified = <<Null, 0>>]
    ELSE
    LET s1 == DisposeEnvironmentTarget(s)
        r1 == IF s1.rotation # 0
              THEN _createRotatedTexture(s1, s1.currentEnvironmentTexture,
                                         s1.rotation)
              ELSE [s |-> s1, texture |-> s1.currentEnvironmentTexture]
        sourceTexture == r1.texture
        renderTarget == NewRenderTarget(r1.s, "pmrem")
        s2 == [r1.s EXCEPT !.gpu = Created(@, renderTarget),
                           !.environmentRenderTarget = renderTarget,
                           !.scene.environment = renderTarget,
                           !.scene.environmentIntensity = s.strength,
                           !.notified = <<renderTarget, s.strength>>]
        r2 == IF s2.rotation # 0
              THEN _createRotatedTexture(s2, s2.currentEnvironmentTexture,
                                         s2.rotation)
              ELSE [s |-> s2, texture |-> s2.currentEnvironmentTexture]
        bgTexture == IF s.blurriness > 0 THEN renderTarget ELSE r2.texture
    IN  IF s.backgroundEnabled
        THEN [r2.s EXCEPT !.scene.background = bgTexture,
                          !.scene.backgroundBlurriness = s.blurriness,
                          !.scene.backgroundIntensity = s.strength]
        ELSE [s2 EXCEPT !.scene.background = Null,
                        !.scene.backgroundBlurriness = 0,
                        !.scene.backgroundIntensity = 1000,
                        !.clearColor = <<s.fallbackColor, 1>>]

\* dispose()
dispose(s) ==
    LET s1 == DisposeEnvironmentTarget(s)
    IN  IF s1.rotationRenderTarget # Null
        THEN [Disposed(s1, s1.rotationRenderTarget)
                  EXCEPT !.rotationRenderTarget = Null]
        ELSE s1

\* setFallbackColor(color)
setFallbackColor(s, color) ==
    LET c == Nullish(color, s.fallbackColor)
        t == [s EXCEPT !.fallbackColor = c]
    IN  IF ~s.backgroundEnabled \/ ~s.enabled
           \/ s.currentEnvironmentTexture = Null
        THEN [t EXCEPT !.clearColor = <<c, 1>>]
        ELSE t

\* setPreset(preset), the part that runs in the call: "invalid" (returns
\* null), "cached" (re-applies the cached texture) or "load" (awaits
\* _loadHdriTexture)
SetPresetPath(s, preset) ==
    IF preset = "" \/ preset \notin Presets THEN "invalid"
    ELSE IF s.currentPreset = preset /\ s.cache[preset] # Null THEN "cached"
    ELSE "load"
\* the id is missing or not in the table: returns null
SetPresetInvalid(s, preset) == s
SetPresetCached(s, preset) ==
    _applyEnvironment([s EXCEPT !.currentEnvironmentTexture = s.cache[preset]])
\* setPreset(preset), the catch branch, and a slip of it that drops the
\* active texture
SetPresetFailedClearing(s, preset) ==
    _applyEnvironment([s EXCEPT !.currentEnvironmentTexture = Null])
SetPresetFailed(s, preset) == s
\* setPreset(preset), the part that runs when the texture has arrived
\* (and a slip of it: the texture is not put into the cache)
SetPresetLoadedNotCaching(s, preset, texture) ==
    _applyEnvironment([s EXCEPT !.currentPreset = preset,
                                !.currentEnvironmentTexture = texture])
SetPresetLoaded(s, preset, texture) ==
    _applyEnvironment([s EXCEPT !.cache[preset] = texture,
                                !.currentPreset = preset,
                                !.currentEnvironmentTexture = texture])

\* setEnabled(enabled), and a slip of it that does not re-derive
EnvSetEnabledNotApplying(s, enabled) == [s EXCEPT !.enabled = enabled]
EnvSetEnabled(s, enabled) == _applyEnvironment([s EXCEPT !.enabled = enabled])
\* setBackgroundEnabled(enabled)
setBackgroundEnabled(s, enabled) ==
    _applyEnvironment([s EXCEPT !.backgroundEnabled = enabled])
\* setStrength(value)
setStrength(s, value) ==
    LET v == Nullish(value, s.strength)
    IN  _applyEnvironment([s EXCEPT !.strength = IF v < 0 THEN 0 ELSE v])
\* setBlurriness(value)
setBlurriness(s, value) ==
    _applyEnvironment(
        [s EXCEPT !.blurriness = Clamp(Nullish(value, s.blurriness), 0, 1000)])
\* ((value ?? 0) % 360 + 360) % 360, and a slip of it: the remainder alone
EnvRemainderOnly(value) == JsRem(Nullish(value, 0), 360)
EnvNormalize(value) == JsRem(JsRem(Nullish(value, 0), 360) + 360, 360)
\* setRotation(value)
EnvSetRotation(s, value) ==
    LET normalized == EnvNormalize(value)
    IN  IF s.rotation = normalized THEN s
        ELSE _applyEnvironment([s EXCEPT !.rotation = normalized])

\* the state after the constructor, the scene and the renderer as three.js
\* makes them
EnvConstructed(enabled, initialPreset) ==
    [enabled |-> enabled, backgroundEnabled |-> TRUE, strength |-> 1000,
     blurriness |-> 0, rotation |-> 0, fallbackColor |-> "#000000",
     cache |-> [p \in Presets |-> Null], currentPreset |-> initialPreset,
     currentEnvironmentTexture |-> Null, environmentRenderTarget |-> Null,
     rotationRenderTarget |-> Null,
     scene |-> [environment |-> Null, environmentIntensity |-> 1000,
                background |-> Null, backgroundBlurriness |-> 0,
                backgroundIntensity |-> 1000],
     clearColor |-> <<"#000000", 0>>,
     notified |-> <<Null, 0>>,
     gpu |-> [live |-> {}, peak |-> [pmrem |-> 0, rotation |-> 0],
              released |-> {}]]

\* what the calls left behind: what setPreset returned, if the last step
\* ended a setPreset call ("": it did not); whether _applyEnvironment has
\* run; whether dispose() has; the preset of the latest setPreset call with
\* a valid id, if that call has returned a mood ("": it has not), and
\* whether that call still awaits its texture
EnvEntry(applies) ==
    [envLog EXCEPT !.result = "", !.applied = @ \/ applies]

\* constructed with the options enabled and initialPreset given or left out
EnvInitWith(enabledOptions, presetOptions) ==
    /\ \E en \in enabledOptions, ip \in presetOptions :
           env = EnvConstructed(en, ip)
    /\ envLoads = <<>>
    /\ envLog = [result |-> "", applied |-> FALSE, disposed |-> FALSE,
                 resolved |-> "", awaited |-> FALSE]
EnvInit == EnvInitWith(BOOLEAN, {"", "studio"})
EnvIdle == EnvInitWith({TRUE}, {""})

\* a call on the environment controller; dispose() is the last one
EnvDriven ==
    /\ driven = "environment"
    /\ ~envLog.disposed
    /\ UNCHANGED <<driven, aeVars, lcVars, ppVars>>

EnvCallSetPreset ==
    /\ EnvDriven
    /\ \E preset \in PresetArgs :
        LET path == SetPresetPath(env, preset)
        IN  \/ /\ path = "invalid"
               /\ env' = SetPresetInvalid(env, preset)
               /\ envLoads' = envLoads
               /\ envLog' = [envLog EXCEPT !.result = "null"]
            \/ /\ path = "cached"
               /\ env' = SetPresetCached(env, preset)
               /\ envLoads' = envLoads
               /\ envLog' = [envLog EXCEPT !.result = Mood(preset),
                                              !.applied = TRUE,
                                              !.resolved = preset,
                                              !.awaited = FALSE]
            \/ /\ path = "load"
               /\ Len(envLoads) < MaxPending
               /\ env' = env
               /\ envLoads' = Append(envLoads, preset)
               /\ envLog' = [envLog EXCEPT !.result = "",
                                              !.resolved = "",
                                              !.awaited = TRUE]

\* the sequence without its i-th element
Without(seq, i) == [j \in 1..(Len(seq) - 1) |->
                        IF j < i THEN seq[j] ELSE seq[j + 1]]

\* an awaited load ends: with a texture, or failing (rejected, or resolved
\* with no texture)
EnvLoadSettles ==
    /\ EnvDriven
    /\ \E i \in 1..Len(envLoads), outcome \in {"texture", "fails"} :
        LET preset == envLoads[i]
            latest == i = Len(envLoads) /\ envLog.awaited
        IN  /\ envLoads' = Without(envLoads, i)
            /\ IF outcome = "fails"
               THEN /\ env' = SetPresetFailed(env, preset)
                    /\ envLog' = [envLog EXCEPT
                                     !.result = "null",
                                     !.awaited = @ /\ ~latest]
               ELSE /\ env' = SetPresetLoaded(env, preset,
                                  Texture(preset,
                                          FreshNumber(env, "texture", preset)))
                    /\ envLog' = [envLog EXCEPT
                                     !.result = Mood(preset),
                                     !.applied = TRUE,
                                     !.resolved = IF latest THEN preset ELSE @,
                                     !.awaited = @ /\ ~latest]

EnvCallSetEnabled ==
    /\ EnvDriven
    /\ \E b \in BOOLEAN :
        /\ env' = EnvSetEnabled(env, b)
        /\ envLog' = EnvEntry(TRUE)
    /\ UNCHANGED envLoads

EnvCallSetBackgroundEnabled ==
    /\ EnvDriven
    /\ \E b \in BOOLEAN : env' = setBackgroundEnabled(env, b)
    /\ envLog' = EnvEntry(TRUE)
    /\ UNCHANGED envLoads

EnvCallSetStrength ==
    /\ EnvDriven
    /\ \E v \in StrengthArgs : env' = setStrength(env, v)
    /\ envLog' = EnvEntry(TRUE)
    /\ UNCHANGED envLoads

EnvCallSetBlurriness ==
    /\ EnvDriven
    /\ \E v \in BlurrinessArgs : env' = setBlurriness(env, v)
    /\ envLog' = EnvEntry(TRUE)
    /\ UNCHANGED envLoads

EnvCallSetRotation ==
    /\ EnvDriven
    /\ \E v \in RotationArgs :
        /\ env' = EnvSetRotation(env, v)
        /\ envLog' = EnvEntry(env.rotation # EnvNormalize(v))
    /\ UNCHANGED envLoads

EnvCallSetFallbackColor ==
    /\ EnvDriven
    /\ \E c \in ColorArgs : env' = setFallbackColor(env, c)
    /\ envLog' = EnvEntry(FALSE)
    /\ UNCHANGED envLoads

EnvCallDispose ==
    /\ EnvDriven
    /\ env' = dispose(env)
    /\ envLog' = [EnvEntry(FALSE) EXCEPT !.disposed = TRUE]
    /\ UNCHANGED envLoads

EnvNext ==
    \/ EnvCallSetPreset
    \/ EnvLoadSettles
    \/ EnvCallSetEnabled
    \/ EnvCallSetBackgroundEnabled
    \/ EnvCallSetStrength
    \/ EnvCallSetBlurriness
    \/ EnvCallSetRotation
    \/ EnvCallSetFallbackColor
    \/ EnvCallDispose

----------------------------------------------------------------------------
(* LightsController *)

LightIds == {"key", "fill", "rim", "ambient"}
Directional == {"key", "fill", "rim"}

\* angles callers pass to setRotation, in degrees
AngleArgs == {0 - 90, 0, 45, 360, 405}
\* Math.cos and Math.sin of degToRad(d) in thousandths, for the multiples of
\* 45 degrees in [0, 360)
Cos(d) == CASE d = 0 -> 1000  [] d = 45 -> 707   [] d = 90 -> 0
            [] d = 135 -> 0 - 707 [] d = 180 -> 0 - 1000 [] d = 225 -> 0 - 707
            [] d = 270 -> 0     [] d = 315 -> 707
Sin(d) == Cos((d + 270) % 360)

\* a lights state: light id -> {color, intensity}, either possibly absent
\* (intensities in tenths); "spot" is no light of the rig
Config(color, intensity) == [color |-> color, intensity |-> intensity]
LightsStates ==
    { <<>>,
      [id \in LightIds |-> Config({}, IF id = "key" THEN {15} ELSE {5})],
      [id \in {"fill", "spot"} |-> Config({"#ffcc88"}, {})] }
\* what callers pass as master (in tenths), model bounds, property updates
MasterArgs == {{}, {5}}
BoundsArgs == {{}, {[center |-> <<0, 1000, 0>>, radius |-> 2000]}}
PropertyArgs ==
    { <<"key", "intensity", {20}>>, <<"ambient", "intensity", {}>>,
      <<"rim", "color", {"#3366ff"}>>, <<"spot", "intensity", {10}>>,
      <<"fill", "visible", {1}>> }

\* the position of base turned about the vertical axis by normalized degrees
Rotated(base, normalized) ==
    <<(base[1] * Cos(normalized) + base[3] * Sin(normalized)) \div 1000,
      base[2],
      (base[3] * Cos(normalized) - base[1] * Sin(normalized)) \div 1000>>

\* updateIndicators: every marker is placed, coloured and scaled after its
\* light.  A marker's position is center + normalize(light - center) *
\* radius * 2.5, kept as the three values it is computed from; its scale is
\* 0.5 + min(intensity / 10, 1) * 2, in thousandths
Marker(light, bounds) ==
    [from |-> bounds.center, toward |-> light.position,
     distance |-> (bounds.radius * 5) \div 2,
     color |-> light.color,
     scale |-> 500 + 2 * (IF light.intensity > 1000 THEN 1000
                          ELSE light.intensity)]
updateIndicators(s) ==
    IF s.lightIndicators = {} \/ s.modelBounds = {} THEN s
    ELSE LET bounds == CHOOSE b \in s.modelBounds : TRUE
         IN  [s EXCEPT !.lightIndicators =
                 {[g EXCEPT !.markers =
                      [id \in Directional |-> Marker(s.lights[id], bounds)]]
                  : g \in @}]

\* clearIndicators: the group leaves the scene, every marker's geometry and
\* material is disposed (and a slip of it: the materials are not disposed)
ClearIndicatorsKeepingMaterials(s) ==
    IF s.lightIndicators = {} THEN s
    ELSE LET g == CHOOSE x \in s.lightIndicators : TRUE
         IN  [s EXCEPT !.sceneGroups = @ \ {g.n},
                       !.geometries = @ \ {g.n},
                       !.lightIndicators = {}]
clearIndicators(s) ==
    IF s.lightIndicators = {} THEN s
    ELSE LET g == CHOOSE x \in s.lightIndicators : TRUE
         IN  [s EXCEPT !.sceneGroups = @ \ {g.n},
                       !.geometries = @ \ {g.n},
                       !.materials = @ \ {g.n},
                       !.lightIndicators = {}]

\* createIndicators
createIndicators(s) ==
    LET s1 == clearIndicators(s)
    IN  IF s1.modelBounds = {} THEN s1
        ELSE LET used == s1.sceneGroups \cup s1.geometries \cup s1.materials
                 n == CHOOSE i \in 1..8 :
                         i \notin used /\ \A j \in 1..(i - 1) : j \in used
                 bounds == CHOOSE b \in s1.modelBounds : TRUE
                 group == [n |-> n,
                           markers |-> [id \in Directional |->
                                           Marker(s1.lights[id], bounds)]]
             IN  updateIndicators(
                     [s1 EXCEPT !.lightIndicators = {group},
                                !.sceneGroups = @ \cup {n},
                                !.geometries = @ \cup {n},
                                !.materials = @ \cup {n}])

\* setModelBounds(bounds)
setModelBounds(s, bounds) ==
    LET s1 == [s EXCEPT !.modelBounds = bounds]
    IN  IF s.showIndicators THEN createIndicators(s1) ELSE s1

\* the intensity a light gets from a configured intensity (tenths), in
\* hundredths
TargetIntensity(s, id, intensity) ==
    LET multiplier == IF id = "ambient" THEN 4 ELSE 2
        baseIntensity == Nullish(intensity, 0) * multiplier
        targetIntensity == baseIntensity * s.lightsMaster
    IN  IF s.lightsEnabled THEN targetIntensity ELSE 0

\* applySettings(lightsState)
applySettings(s, lightsState) ==
    updateIndicators(
        [s EXCEPT !.lights =
            [id \in LightIds |->
                IF id \in DOMAIN lightsState
                THEN [@[id] EXCEPT
                        !.color = Nullish(lightsState[id].color, @),
                        !.intensity =
                            TargetIntensity(s, id, lightsState[id].intensity)]
                ELSE @[id]]])

\* setEnabled(enabled, lightsState)
LcSetEnabled(s, enabled, lightsState) ==
    LET s1 == [s EXCEPT !.lightsEnabled = enabled]
    IN  IF enabled THEN applySettings(s1, lightsState)
        ELSE [s1 EXCEPT !.lights =
                 [id \in LightIds |-> [@[id] EXCEPT !.intensity = 0]]]

\* setMaster(value, lightsState)
setMaster(s, value, lightsState) ==
    LET s1 == [s EXCEPT !.lightsMaster = Nullish(value, 10)]
    IN  updateIndicators(IF s1.lightsEnabled
                         THEN applySettings(s1, lightsState) ELSE s1)

\* updateLightProperty(lightId, property, value)
updateLightProperty(s, lightId, property, value) ==
    IF lightId \notin LightIds THEN s
    ELSE updateIndicators(
            IF property = "color"
            THEN [s EXCEPT !.lights[lightId].color = Nullish(value, @)]
            ELSE IF property = "intensity"
            THEN [s EXCEPT !.lights[lightId].intensity =
                      TargetIntensity(s, lightId, value)]
            ELSE s)

\* ((value % 360) + 360) % 360
LcNormalize(value) == JsRem(JsRem(value, 360) + 360, 360)
\* setRotation(value), and a slip of it that turns the lights from where
\* they stand
LcSetRotationIncremental(s, value) ==
    LET normalized == LcNormalize(value)
    IN  updateIndicators(
            [s EXCEPT !.rotation = normalized,
                      !.lights = [id \in LightIds |->
                          IF id \in Directional
                          THEN [@[id] EXCEPT !.position =
                                   Rotated(@, normalized)]
                          ELSE @[id]]])
LcSetRotation(s, value) ==
    LET normalized == LcNormalize(value)
    IN  updateIndicators(
            [s EXCEPT !.rotation = normalized,
                      !.lights = [id \in LightIds |->
                          IF id \in Directional
                          THEN [@[id] EXCEPT !.position =
                                   Rotated(s.basePositions[id], normalized)]
                          ELSE @[id]]])

\* setIndicatorsVisible(enabled)
setIndicatorsVisible(s, enabled) ==
    LET s1 == [s EXCEPT !.showIndicators = enabled]
    IN  IF enabled THEN createIndicators(s1) ELSE clearIndicators(s1)

\* the positions the constructor gives the directional lights, in
\* thousandths
ConstructedPositions ==
    [id \in Directional |->
        IF id = "key" THEN <<5000, 5000, 5000>>
        ELSE IF id = "fill" THEN <<0 - 4000, 3000, 3000>>
        ELSE <<0 - 2000, 4000, 0 - 4000>>]

\* the state after the constructor (options absent or given)
LcConstructed(enabled, master, rotation) ==
    [lightsEnabled |-> Nullish(enabled, TRUE),
     lightsMaster |-> Nullish(master, 10),
     rotation |-> Nullish(rotation, 0),
     modelBounds |-> {}, showIndicators |-> FALSE, lightIndicators |-> {},
     lights |-> [id \in LightIds |->
         [intensity |-> IF id = "key" THEN 400 ELSE IF id = "fill" THEN 250
                        ELSE IF id = "rim" THEN 300 ELSE 150,
          color |-> IF id = "ambient" THEN "#7c8ca6" ELSE "#ffffff",
          position |-> IF id \in Directional THEN ConstructedPositions[id]
                       ELSE <<0, 0, 0>>]],
     basePositions |-> ConstructedPositions,
     sceneGroups |-> {}, geometries |-> {}, materials |-> {}]

\* multiplier * configured intensity (tenths) * master (tenths), in
\* hundredths
FormulaIntensity(master, id, v) == (IF id = "ambient" THEN 4 ELSE 2) * v * master
\* the intensities configured last, after a lights state has been applied:
\* config.intensity ?? 0 for every light of the rig it names
ConfiguredBy(configured, lightsState) ==
    [id \in LightIds |->
        IF id \in DOMAIN lightsState
        THEN {Nullish(lightsState[id].intensity, 0)}
        ELSE configured[id]]
\* every light has been configured and shows multiplier * configured * master
ShowsConfigured(s, configured) ==
    \A id \in LightIds :
        /\ configured[id] # {}
        /\ \A v \in configured[id] :
               s.lights[id].intensity = FormulaIntensity(s.lightsMaster, id, v)

\* what the calls left behind.  lastAngle: the angle of the last setRotation
\* call ({}: none yet); configured: per light the intensity configured last
\* ({}: none yet); toggled: the rig was constructed disabled or setEnabled
\* has been called; cycle: "off" after a setEnabled(false) made while the
\* rig was enabled and showed what was configured, "on" after the
\* setEnabled(true) that follows it directly, "none" otherwise
LcEntry(configured) ==
    [lcLog EXCEPT !.configured = configured, !.cycle = "none"]

\* constructed with the options enabled and rotation given or left out
LcInitWith(enabledOptions, rotationOptions) ==
    /\ \E en \in enabledOptions, r \in rotationOptions :
           /\ lc = LcConstructed(en, {}, r)
           /\ lcLog = [lastAngle |-> {},
                       configured |-> [id \in LightIds |-> {}],
                       toggled |-> ~Nullish(en, TRUE),
                       cycle |-> "none"]
LcInit == LcInitWith({{}, {FALSE}}, {{}, {90}})
LcIdle == LcInitWith({{}}, {{}})

\* a call on the lights controller
LcDriven == driven = "lights" /\ UNCHANGED <<driven, aeVars, envVars, ppVars>>

LcCallSetModelBounds ==
    /\ LcDriven
    /\ \E b \in BoundsArgs : lc' = setModelBounds(lc, b)
    /\ lcLog' = LcEntry(lcLog.configured)

LcCallApplySettings ==
    /\ LcDriven
    /\ \E ls \in LightsStates :
        /\ lc' = applySettings(lc, ls)
        /\ lcLog' = LcEntry(ConfiguredBy(lcLog.configured, ls))

LcCallSetEnabled ==
    /\ LcDriven
    /\ \E b \in BOOLEAN, ls \in LightsStates :
        /\ lc' = LcSetEnabled(lc, b, ls)
        /\ lcLog' = [lcLog EXCEPT
               !.toggled = TRUE,
               !.configured = IF b THEN ConfiguredBy(@, ls) ELSE @,
               !.cycle = IF b THEN (IF @ = "off" THEN "on" ELSE "none")
                         ELSE IF lc.lightsEnabled
                                 /\ ShowsConfigured(lc, lcLog.configured)
                              THEN "off" ELSE "none"]

LcCallSetMaster ==
    /\ LcDriven
    /\ \E v \in MasterArgs, ls \in LightsStates :
        /\ lc' = setMaster(lc, v, ls)
        /\ lcLog' = LcEntry(IF lc.lightsEnabled
                            THEN ConfiguredBy(lcLog.configured, ls)
                            ELSE lcLog.configured)

LcCallUpdateLightProperty ==
    /\ LcDriven
    /\ \E a \in PropertyArgs :
        /\ lc' = updateLightProperty(lc, a[1], a[2], a[3])
        /\ lcLog' = LcEntry(IF a[1] \in LightIds /\ a[2] = "intensity"
                            THEN [lcLog.configured EXCEPT
                                     ![a[1]] = {Nullish(a[3], 0)}]
                            ELSE lcLog.configured)

LcCallSetRotation ==
    /\ LcDriven
    /\ \E v \in AngleArgs :
        /\ lc' = LcSetRotation(lc, v)
        /\ lcLog' = [LcEntry(lcLog.configured) EXCEPT !.lastAngle = {v}]

LcCallSetIndicatorsVisible ==
    /\ LcDriven
    /\ \E b \in BOOLEAN : lc' = setIndicatorsVisible(lc, b)
    /\ lcLog' = LcEntry(lcLog.configured)

LcNext ==
    \/ LcCallSetModelBounds
    \/ LcCallApplySettings
    \/ LcCallSetEnabled
    \/ LcCallSetMaster
    \/ LcCallUpdateLightProperty
    \/ LcCallSetRotation
    \/ LcCallSetIndicatorsVisible

----------------------------------------------------------------------------
(* PostProcessingPipeline *)

\* a pass as the library constructs it (RenderPass, BokehPass,
\* UnrealBloomPass, FilmPass, ShaderPass): enabled, not rendering to screen
Pass(name) == [name |-> name, enabled |-> TRUE, renderToScreen |-> FALSE]

\* the pass ColorAdjustController.getPass() hands out: a pass like the
\* others, enabled and not the terminal one
ColorAdjustPass == Pass("colorAdjustPass")

\* composer.addPass(pass)
addPass(passes, pass) == Append(passes, pass)

\* the constructor: composer.passes when it returns; and a slip of it, the
\* tone-mapping pass registered before the color adjustment
PipelineToneMappingEarly ==
    LET lensDirtPass == [Pass("lensDirtPass") EXCEPT !.enabled = FALSE]
        fxaaPass == [Pass("fxaaPass") EXCEPT !.enabled = FALSE,
                                             !.renderToScreen = FALSE]
        toneMappingPass ==
            [Pass("toneMappingPass") EXCEPT !.renderToScreen = TRUE]
    IN  <<Pass("renderPass"), Pass("bokehPass"), Pass("bloomPass"),
          Pass("bloomTintPass"), lensDirtPass, Pass("filmPass"),
          Pass("grainTintPass"), Pass("aberrationPass"), fxaaPass,
          Pass("exposurePass"), toneMappingPass, ColorAdjustPass>>
PostProcessingPipeline ==
    LET renderPass == Pass("renderPass")
        bokehPass == Pass("bokehPass")
        bloomPass == Pass("bloomPass")
        filmPass == Pass("filmPass")
        bloomTintPass == Pass("bloomTintPass")
        grainTintPass == Pass("grainTintPass")
        lensDirtPass == [Pass("lensDirtPass") EXCEPT !.enabled = FALSE]
        aberrationPass ==
            [Pass("aberrationPass") EXCEPT !.renderToScreen = FALSE]
        exposurePass == [Pass("exposurePass") EXCEPT !.renderToScreen = FALSE]
        fxaaPass == [Pass("fxaaPass") EXCEPT !.enabled = FALSE,
                                             !.renderToScreen = FALSE]
        colorAdjustPass == ColorAdjustPass
        toneMappingPass ==
            [Pass("toneMappingPass") EXCEPT !.renderToScreen = TRUE]
        p1 == addPass(<<>>, renderPass)
        p2 == addPass(p1, bokehPass)
        p3 == addPass(p2, bloomPass)
        p4 == addPass(p3, bloomTintPass)
        p5 == addPass(p4, lensDirtPass)
        p6 == addPass(p5, filmPass)
        p7 == addPass(p6, grainTintPass)
        p8 == addPass(p7, aberrationPass)
        p9 == addPass(p8, fxaaPass)
        p10 == addPass(p9, exposurePass)
        p11 == addPass(p10, colorAdjustPass)
    IN  addPass(p11, toneMappingPass)

\* turning one pass on or off: pass.enabled = enabled
setPassEnabled(passes, i, enabled) == [passes EXCEPT ![i].enabled = enabled]

PpInit ==
    /\ pp = PostProcessingPipeline
    /\ ppLog = [toggled |-> FALSE]

\* a toggle of one effect by the viewer
PpSetPassEnabled ==
    /\ driven = "pipeline"
    /\ UNCHANGED <<driven, aeVars, envVars, lcVars>>
    /\ \E i \in DOMAIN pp, enabled \in BOOLEAN :
        /\ pp' = setPassEnabled(pp, i, enabled)
        /\ ppLog' = [toggled |-> TRUE]

PpNext == PpSetPassEnabled

----------------------------------------------------------------------------
(* The viewer: one controller is driven per behaviour *)

\* the controllers not driven stay as their constructors leave them
Init ==
    /\ PpInit
    /\ \/ driven = "exposure" /\ AeInit /\ EnvIdle /\ LcIdle
       \/ driven = "environment" /\ AeInit /\ EnvInit /\ LcIdle
       \/ driven = "lights" /\ AeInit /\ EnvIdle /\ LcInit
       \/ driven = "frames" /\ AeInit /\ EnvIdle /\ LcIdle
       \/ driven = "pipeline" /\ AeInit /\ EnvIdle /\ LcIdle

NextFrames == AeStartAuto \/ AeGreyFrame

NextSustained == AeStartAuto \/ AeWhiteFrame

Next == AeNext \/ EnvNext \/ LcNext \/ NextFrames \/ NextSustained \/ PpNext

Spec == Init /\ [][Next]_vars

InitExposure == Init /\ driven = "exposure"
SpecExposure == InitExposure /\ [][AeNext]_vars

InitEnvironment == Init /\ driven = "environment"
SpecEnvironment == InitEnvironment /\ [][EnvNext]_vars

InitLights == Init /\ driven = "lights"
SpecLights == InitLights /\ [][LcNext]_vars

\* the exposure controller over a run of grey frames
InitFrames == Init /\ driven = "frames"
SpecFrames == InitFrames /\ [][NextFrames]_vars

\* the exposure controller over a run of white frames
SpecSustained == InitFrames /\ [][NextSustained]_vars

\* the pass chain and its toggles
InitPipeline == Init /\ driven = "pipeline"
SpecPipeline == InitPipeline /\ [][PpNext]_vars

\* the two controllers that have a rotation
InitRotation == Init /\ driven \in {"environment", "lights"}
NextRotation == EnvNext \/ LcNext
SpecRotation == InitRotation /\ [][NextRotation]_vars

\* ---------------------------------------------------------------------
\* Properties of the exposure controller (SpecExposure)

\* C1, as stated: while auto-exposure is disabled, the current exposure is
\* the argument of the last setManualExposure call, or the init/snapshot
\* exposure if there was no such call
C1_DisabledShowsLastSetManual ==
    ~ae.enabled =>
        ae.currentExposure = Nullish(aeLog.lastSet, aeLog.lastManual)

\* C1, amended: while auto-exposure is disabled, the current exposure is the
\* manual exposure given last, be it by setManualExposure, init or
\* applyStateSnapshot, whatever the auto frames did before the disabling
\* and even when that value was given while auto-exposure was enabled
C1_DisabledShowsLastManual ==
    ~ae.enabled =>
        /\ ae.currentExposure = aeLog.lastManual
        /\ ae.manualExposure = aeLog.lastManual

\* a setManualExposure call made while auto-exposure ran, frames that moved
\* the exposure elsewhere, and then the disabling
C1_DisabledAfterAutoFrames ==
    /\ aeLog.op = "setEnabled(false)"
    /\ aeLog.wasEnabled
    /\ aeLog.setInAuto
    /\ aeLog.frames > 0
    /\ ae.autoExposureValue # aeLog.lastManual
    /\ ae.currentExposure = aeLog.lastManual

\* C2: setEnabled(true) changes neither the current exposure nor the
\* uniform and seeds the auto value with the current exposure, so that the
\* update() right after it smooths from the exposure that was on screen
C2_EnablingSeedsFromCurrent ==
    [][/\ aeLog'.op = "setEnabled(true)" =>
            /\ ae'.enabled
            /\ ae'.currentExposure = ae.currentExposure
            /\ ae'.exposureUniform = ae.exposureUniform
            /\ ae'.autoExposureValue = ae.currentExposure
       /\ (aeLog.op = "setEnabled(true)" /\ aeLog'.op = "update") =>
            ae'.currentExposure =
                Lerp(ae.currentExposure,
                     TargetExposure(ae'.averageLuminance), smooth)]_vars

\* auto-exposure enabled from Manual, after earlier auto frames, with a
\* manual exposure other than the default on screen
C2_EnabledFromManual ==
    /\ aeLog.op = "setEnabled(true)"
    /\ ~aeLog.wasEnabled
    /\ aeLog.frames > 0
    /\ ae.enabled
    /\ ae.currentExposure = ae.manualExposure
    /\ ae.autoExposureValue = ae.currentExposure
    /\ ae.currentExposure # 1000


\* C13: update(true) does nothing, in Manual and in Auto mode: no fields and
\* no uniform change, nothing is rendered off screen or read back, and the
\* observer is not called
C13_UnlitUpdateIsNoOp ==
    [][aeLog'.op = "update(unlit)" =>
          /\ ae' = ae
          /\ ~aeLog'.rendered
          /\ ~aeLog'.notified
          /\ \A prev \in RenderTargets : UpdateCalls(TRUE, prev) = <<>>]_vars

\* an update(true) in Auto mode, in a state that an update(false) on a white
\* frame would have changed
C13_UnlitFrameInAuto ==
    /\ aeLog.op = "update(unlit)"
    /\ aeLog.wasEnabled
    /\ ae.enabled
    /\ update(ae, FALSE, {<<255, 255, 255>>}) # ae

\* C14: an update() in which readRenderTargetPixels throws returns normally,
\* keeps averageLuminance, leaves the renderer's active render target as it
\* was before the call, and in Auto mode still runs the exposure step on the
\* averageLuminance it kept
C14_ReadbackFailureIsSilent ==
    [][aeLog'.readFailed =>
          /\ ~aeLog'.threw
          /\ ae'.averageLuminance = ae.averageLuminance
          /\ aeLog'.restored
          /\ ae' = applyAutoExposure(ae)]_vars

\* C15: no call leaves by an exception of the observer: update(), setEnabled
\* and setManualExposure return normally when the observer they call throws,
\* with the new value in currentExposure and in the uniform
C15_ObserverFailureIsContained ==
    /\ ~aeLog.threw
    /\ ae.exposureUniform = ae.currentExposure

\* C17: in Auto mode, while every update() so far has sampled a frame of the
\* target luminance, an update() moves autoExposureValue toward
\* target / target = 1 (within [min, max]) or leaves it: never away from 1,
\* never past 1, and not at all once it is 1
C17_ConvergesMonotonically ==
    [][(aeLog'.op = "update" /\ aeLog'.steady /\ ae.enabled) =>
          LET goal == Clamp((target * 1000) \div target, min, max)
              before == ae.autoExposureValue
              after == ae'.autoExposureValue
          IN  /\ before <= goal => (before <= after /\ after <= goal)
              /\ before >= goal => (goal <= after /\ after <= before)]_vars

\* C18: in Auto mode resetLuminance() sets averageLuminance to the target
\* and autoExposureValue to the current exposure and changes nothing else;
\* the update() right after it leaves autoExposureValue within smooth times
\* the distance between the current exposure before the reset and the
\* clamped target exposure of that update (to the rounding of thousandths)
C18_ResetThenOneSmoothingStep ==
    [][/\ (aeLog'.op = "resetLuminance" /\ ae.enabled) =>
            ae' = [ae EXCEPT !.averageLuminance = target,
                             !.autoExposureValue = ae.currentExposure]
       /\ (aeLog.op = "resetLuminance" /\ aeLog.wasEnabled /\ ae.enabled
              /\ aeLog'.op \in {"update", "update(unlit)"}) =>
            LET before == ae.currentExposure
                after == ae'.autoExposureValue
                targetExposure == TargetExposure(ae'.averageLuminance)
                moved == IF after >= before THEN after - before
                         ELSE before - after
                distance == IF targetExposure >= before
                            THEN targetExposure - before
                            ELSE before - targetExposure
            IN  moved * 1000 <= smooth * distance + 500]_vars

\* resetLuminance() in Auto mode after earlier frames, with an exposure off
\* the default on screen that a following update() on a white frame moves
C18_ResetInAuto ==
    /\ aeLog.op = "resetLuminance"
    /\ aeLog.wasEnabled
    /\ ae.enabled
    /\ aeLog.frames > 0
    /\ ae.averageLuminance = target
    /\ ae.autoExposureValue = ae.currentExposure
    /\ ae.currentExposure # 1000
    /\ update(ae, FALSE, {<<255, 255, 255>>}).autoExposureValue
           # ae.currentExposure

\* whether the smoothed luminance has settled at that of frames of one grey
\* level: another such frame leaves it as it is
SettledAt(s, b) ==
    sampleSceneLuminance(s, {<<b, b, b>>}).averageLuminance = s.averageLuminance

\* C19: in Auto mode, with averageLuminance settled at 0.4, the update() on
\* a frame of luminance 0.9 takes its target exposure from the bright
\* (power-curve) branch, and that target is lower than the target of the
\* frame before
C19_BrightJumpTakesPowerCurve ==
    [][(/\ ae.enabled
        /\ SettledAt(ae, 102)
        /\ aeLog'.op = "update"
        /\ ae' = update(ae, FALSE, {<<230, 230, 230>>})) =>
          /\ BrightBranch(ae'.averageLuminance)
          /\ TargetExposure(ae'.averageLuminance)
                 < TargetExposure(ae.averageLuminance)]_vars

\* C23: update() renders off screen exactly when auto-exposure is enabled
\* and the frame is lit, and changes averageLuminance in no other case: in
\* Manual mode it renders nothing and leaves averageLuminance as it is
C23_SamplesOnlyInAuto ==
    [][aeLog'.op \in {"update", "update(unlit)"} =>
          LET sampling == ae.enabled /\ aeLog'.op = "update"
          IN  /\ aeLog'.rendered <=> sampling
              /\ ~sampling => ae'.averageLuminance = ae.averageLuminance]_vars

\* C24: in Auto mode, once white frames have brought the controller to rest
\* (another white frame changes nothing), the luminance the curve is given
\* is the maximum luminance 1.2, the target exposure is min and
\* autoExposureValue is min
C24_MinimumIsReached ==
    (/\ ae.enabled
     /\ aeLog.op = "update"
     /\ update(ae, FALSE, {<<255, 255, 255>>}) = ae) =>
        /\ Clamp(ae.averageLuminance, luminanceFloor, luminanceCeiling)
               = luminanceCeiling
        /\ TargetExposure(ae.averageLuminance) = min
        /\ ae.autoExposureValue = min

\* C27: whenever auto-exposure is enabled, autoExposureValue equals
\* currentExposure, so the next smoothing step starts from the exposure on
\* screen
C27_AutoValueIsOnScreen ==
    ae.enabled => ae.autoExposureValue = ae.currentExposure

\* a snapshot that turned auto-exposure on and brought a manual exposure other
\* than the one on screen
C27_SnapshotEnablesAuto ==
    /\ ae.enabled
    /\ aeLog.op = "applyStateSnapshot"
    /\ ~aeLog.wasEnabled
    /\ ae.manualExposure # ae.currentExposure
\* ---------------------------------------------------------------------
\* Properties of the environment controller (SpecEnvironment)

\* C3: when the latest setPreset(id) call has resolved and the next
\* setPreset call asks for the same id, that call starts no load: it takes
\* the cached texture
C3_RepeatedPresetLoadsOnce ==
    [][(envLog.resolved # "" /\ Len(envLoads') > Len(envLoads))
            => envLoads'[Len(envLoads')] # envLog.resolved]_vars

\* the flat fallback: no environment map, no ambient contribution, no
\* background, the fallback colour as the opaque clear colour
Fallback(s) ==
    /\ s.scene.environment = Null
    /\ s.scene.environmentIntensity = 0
    /\ s.scene.background = Null
    /\ s.clearColor = <<s.fallbackColor, 1>>

\* C4: once the environment has been derived, the scene shows the flat
\* fallback whenever the controller is disabled or holds no texture,
\* whatever was called since and whichever loads completed
C4_DisabledShowsFallback ==
    (envLog.applied /\ (~env.enabled \/ env.currentEnvironmentTexture = Null))
        => Fallback(env)

\* disabled while holding a texture that had been convolved for the scene
C4_DisabledWithTexture ==
    /\ ~env.enabled
    /\ envLog.applied
    /\ env.currentEnvironmentTexture # Null
    /\ env.environmentRenderTarget # Null
    /\ Fallback(env)

\* C5: a setPreset call that ends on an unknown id or on a failed load
\* returns null and leaves the cache, the current preset, the current
\* texture and the scene's environment and background as they were; so
\* does the part of a call that runs before its load is awaited
C5_FailedPresetKeepsEnvironment ==
    [][/\ \A preset \in PresetArgs \ Presets :
              SetPresetPath(env, preset) = "invalid"
       /\ Len(envLoads') > Len(envLoads) => env' = env
       /\ envLog'.result = "null" =>
              /\ env'.cache = env.cache
              /\ env'.currentPreset = env.currentPreset
              /\ env'.currentEnvironmentTexture = env.currentEnvironmentTexture
              /\ env'.scene.environment = env.scene.environment
              /\ env'.scene.background = env.scene.background]_vars

\* a setPreset call returned null while an environment was showing, and it
\* shows still
C5_FailedWhileShowing ==
    /\ envLog.result = "null"
    /\ env.currentEnvironmentTexture # Null
    /\ env.scene.environment = env.environmentRenderTarget
    /\ env.scene.environment \in env.gpu.live

\* C6: at most one convolved and one rotation render target are live, none
\* was ever created while another of its kind was live, and every live one
\* is held by the controller
C6_OneRenderTargetOfEachKind ==
    /\ env.gpu.peak.pmrem <= 1
    /\ env.gpu.peak.rotation <= 1
    /\ \A k \in {"pmrem", "rotation"} :
           Cardinality({o \in env.gpu.live : o.k = k}) <= 1
    /\ env.gpu.live \subseteq
           {env.environmentRenderTarget, env.rotationRenderTarget}

\* both kinds live at once, the rotated texture showing as the background
C6_BothKindsLive ==
    /\ env.rotation # 0
    /\ env.environmentRenderTarget \in env.gpu.live
    /\ env.rotationRenderTarget \in env.gpu.live
    /\ env.scene.background = env.rotationRenderTarget
    /\ env.gpu.peak = [pmrem |-> 1, rotation |-> 1]

\* C7: after dispose() no render target is live and every texture in the
\* preset cache has been disposed
C7_DisposeReleasesEverything ==
    envLog.disposed =>
        /\ env.gpu.live = {}
        /\ \A p \in Presets :
               env.cache[p] # Null => env.cache[p] \in env.gpu.released


\* what the scene shows of an active environment: the live convolved map as
\* scene.environment at the configured strength; as background, with the
\* background enabled, that same map when blurred, else the texture
\* rotatedSource stands for when rotated, else the source itself; with the
\* background disabled, no background and the fallback clear colour
ShowsEnvironment(s, rotatedSource) ==
    /\ s.scene.environment = s.environmentRenderTarget
    /\ s.scene.environment.k = "pmrem"
    /\ s.scene.environment \in s.gpu.live
    /\ s.scene.environmentIntensity = s.strength
    /\ s.backgroundEnabled =>
           s.scene.background =
               IF s.blurriness > 0 THEN s.scene.environment
               ELSE IF s.rotation # 0 THEN rotatedSource
               ELSE s.currentEnvironmentTexture
    /\ ~s.backgroundEnabled =>
           /\ s.scene.background = Null
           /\ s.clearColor = <<s.fallbackColor, 1>>

\* C16 as stated: an active environment shows the convolved map, and as
\* background the rotation render target's texture whenever blurriness = 0
\* and rotation # 0
C16_BackgroundIsRotatedSource ==
    (env.enabled /\ env.currentEnvironmentTexture # Null /\ ~envLog.disposed)
        => /\ ShowsEnvironment(env, env.rotationRenderTarget)
           /\ env.rotation # 0 =>
                  /\ env.rotationRenderTarget.k = "rotation"
                  /\ env.rotationRenderTarget \in env.gpu.live

\* C16: an active environment shows the convolved map, and as background
\* the rotation render target's texture when blurriness = 0, rotation # 0
\* and the source's dimensions are detected; the unrotated source when they
\* are not
C16_BackgroundSelection ==
    (env.enabled /\ env.currentEnvironmentTexture # Null /\ ~envLog.disposed)
        => /\ ShowsEnvironment(env,
                  IF HasWidth(env.currentEnvironmentTexture)
                  THEN env.rotationRenderTarget
                  ELSE env.currentEnvironmentTexture)
           /\ (env.rotation # 0 /\ HasWidth(env.currentEnvironmentTexture)) =>
                  /\ env.rotationRenderTarget.k = "rotation"
                  /\ env.rotationRenderTarget \in env.gpu.live

\* the studio source, rotated and unblurred, behind the model, lit by its
\* convolved map
C16_RotatedBackgroundShown ==
    /\ env.enabled
    /\ env.backgroundEnabled
    /\ env.blurriness = 0
    /\ env.rotation # 0
    /\ env.currentEnvironmentTexture.p = "studio"
    /\ env.scene.background = env.rotationRenderTarget
    /\ env.scene.background.k = "rotation"
    /\ env.scene.environment.k = "pmrem"
    /\ ~envLog.disposed

\* C21: once no load is awaited any more, the preset of the latest setPreset
\* call (one with a valid id that returned its mood) is the active one:
\* currentPreset names it and currentEnvironmentTexture is its texture,
\* whichever order the loads completed in
C21_LatestPresetWins ==
    (envLoads = <<>> /\ envLog.resolved # "" /\ ~envLog.disposed) =>
        /\ env.currentPreset = envLog.resolved
        /\ env.currentEnvironmentTexture.p = envLog.resolved
        /\ env.currentEnvironmentTexture = env.cache[envLog.resolved]

\* C22: a texture the cache holds for a preset stays there: no step removes
\* the entry or puts another texture object in its place
C22_CacheIsAppendOnly ==
    [][\A p \in Presets :
          env.cache[p] # Null => env'.cache[p] = env.cache[p]]_vars

\* C28: whenever there is an active environment texture, the cache has an
\* entry for the current preset and that entry is the active texture itself
C28_ActiveTextureIsCachedEntry ==
    env.currentEnvironmentTexture # Null =>
        /\ env.currentPreset \in Presets
        /\ env.cache[env.currentPreset] = env.currentEnvironmentTexture

\* two loads of "studio" overlapped and both have arrived: the active texture
\* is the second studio texture, and no other preset was ever loaded
C28_SameIdLoadsOverlapped ==
    /\ envLoads = <<>>
    /\ env.currentEnvironmentTexture = Texture("studio", 2)
    /\ env.cache["sunset"] = Null

\* C29: until dispose() is called, the scene's environment and background
\* are each null, a cached source texture, or a render target that is
\* still live: never one that has been disposed
C29_SceneHoldsNoDisposedTarget ==
    ~envLog.disposed =>
        \A shown \in {env.scene.environment, env.scene.background} :
            \/ shown = Null
            \/ \E p \in Presets : env.cache[p] # Null /\ shown = env.cache[p]
            \/ shown \in env.gpu.live

\* the rig is turned and the rotated texture was made twice in the derivation:
\* the scene shows the convolved target and, behind it, the second rotation
\* target, the only one of its kind alive
C29_RotatedTwiceInOneDerivation ==
    /\ ~envLog.disposed
    /\ env.rotation # 0
    /\ env.scene.environment.k = "pmrem"
    /\ env.scene.background.k = "rotation"
    /\ env.scene.background = env.rotationRenderTarget
    /\ {o \in env.gpu.live : o.k = "rotation"} = {env.rotationRenderTarget}
\* ---------------------------------------------------------------------
\* Properties of setRotation on both controllers (SpecRotation)

\* the integer angles the normalisation is tried on
Angles == (0 - 1080)..1080
\* the angles the controllers are turned to from every state
TestAngles == {0 - 450, 0, 315}

\* both normalisations take every angle into [0, 360)
NormalizesEveryAngle ==
    \A a \in Angles :
        /\ EnvNormalize({a}) \in 0..359
        /\ LcNormalize(a) \in 0..359

\* C8: on both controllers setRotation stores a rotation in [0, 360) for
\* every integer angle, a second setRotation with the same angle changes
\* nothing, and an angle and the angle plus 360 lead to the same state
C8_RotationNormalizedIdempotentPeriodic ==
    /\ NormalizesEveryAngle
    /\ \A a \in TestAngles :
        LET e1 == EnvSetRotation(env, {a})
            l1 == LcSetRotation(lc, a)
        IN  /\ e1.rotation = EnvNormalize({a})
            /\ EnvSetRotation(e1, {a}) = e1
            /\ EnvSetRotation(env, {a + 360}) = e1
            /\ l1.rotation = LcNormalize(a)
            /\ LcSetRotation(l1, a) = l1
            /\ LcSetRotation(lc, a + 360) = l1

\* the environment turned by setRotation(-90): 270 is stored and the
\* rotated texture shows
C8_TurnedByNegativeAngle ==
    /\ driven = "environment"
    /\ env.rotation = 270
    /\ env.rotationRenderTarget \in env.gpu.live
    /\ env.scene.background = env.rotationRenderTarget

\* ---------------------------------------------------------------------
\* Properties of the lights controller (SpecLights)

\* C9: after setRotation calls every directional light stands at its
\* constructed base position turned about the vertical axis by the last
\* angle alone, its height kept; the base positions never change; after an
\* angle that is a multiple of 360 the lights stand at their base
\* positions; setRotation leaves the ambient light as it was
C9_RotationFromBaseOnly ==
    /\ lc.basePositions = ConstructedPositions
    /\ \A a \in lcLog.lastAngle, id \in Directional :
        /\ lc.rotation = LcNormalize(a)
        /\ lc.lights[id].position =
               Rotated(ConstructedPositions[id], LcNormalize(a))
        /\ lc.lights[id].position[2] = ConstructedPositions[id][2]
        /\ a % 360 = 0 => lc.lights[id].position = ConstructedPositions[id]
    /\ \A a \in AngleArgs :
           LcSetRotation(lc, a).lights["ambient"] = lc.lights["ambient"]

\* back at the base positions by setRotation(360)
C9_FullTurn ==
    /\ lcLog.lastAngle = {360}
    /\ lc.rotation = 0
    /\ \A id \in Directional : lc.lights[id].position = ConstructedPositions[id]

\* C10: while the rig is disabled every light's intensity is 0
C10_DisabledRigIsDark ==
    ~lc.lightsEnabled => \A id \in LightIds : lc.lights[id].intensity = 0

\* C11: after setEnabled(false), made while the enabled rig showed the
\* configured intensities, and the setEnabled(true) that follows it, every
\* light shows multiplier * configured intensity * master again
C11_EnableRestoresConfigured ==
    lcLog.cycle = "on" => ShowsConfigured(lc, lcLog.configured)

\* C12: while a rig that has been enabled since its construction has seen
\* applySettings, updateLightProperty and setMaster calls only, every
\* configured light shows multiplier * the intensity configured last * the
\* current master
C12_IntensityFollowsFormula ==
    (lc.lightsEnabled /\ ~lcLog.toggled) =>
        \A id \in LightIds : \A v \in lcLog.configured[id] :
            lc.lights[id].intensity = FormulaIntensity(lc.lightsMaster, id, v)


\* C25: in every state, the one right after construction included, each
\* directional light stands at its base position turned about the vertical
\* axis by the controller's rotation
C25_PositionsAgreeWithRotation ==
    \A id \in Directional :
        lc.lights[id].position = Rotated(lc.basePositions[id], lc.rotation)

\* C26: an indicator group exists only while indicators are switched visible
\* and the model bounds are known; the scene holds that group and no
\* other; and the only marker geometries and materials not disposed are
\* those of that group
C26_IndicatorLifecycle ==
    LET built == {g.n : g \in lc.lightIndicators}
    IN  /\ lc.lightIndicators # {} =>
               (lc.showIndicators /\ lc.modelBounds # {})
        /\ Cardinality(lc.lightIndicators) <= 1
        /\ lc.sceneGroups = built
        /\ lc.geometries = built
        /\ lc.materials = built

\* a group on show for a rig that has been turned, its key marker pointing
\* at the key light where it stands now
C26_IndicatorsOfTurnedRig ==
    /\ lc.showIndicators
    /\ lc.modelBounds # {}
    /\ lc.rotation # 0
    /\ lcLog.lastAngle # {}
    /\ \E g \in lc.lightIndicators :
           /\ g.markers["key"].toward = lc.lights["key"].position
           /\ lc.sceneGroups = {g.n}

\* the passes in the order the specification gives them: render,
\* depth-of-field, bloom, bloom tint, lens dirt, film grain, grain tint,
\* chromatic aberration, anti-aliasing, exposure, color adjust, tone-map
PassOrder ==
    <<"renderPass", "bokehPass", "bloomPass", "bloomTintPass", "lensDirtPass",
      "filmPass", "grainTintPass", "aberrationPass", "fxaaPass",
      "exposurePass", "colorAdjustPass", "toneMappingPass">>

\* C20: the composer's passes are those twelve in that order, whatever has
\* been toggled; exactly one pass renders to screen and it is the last one,
\* the tone-mapping pass; and until a pass is toggled every pass is enabled
\* except the anti-aliasing and the lens dirt pass
C20_PassChainStructure ==
    /\ [i \in DOMAIN pp |-> pp[i].name] = PassOrder
    /\ {i \in DOMAIN pp : pp[i].renderToScreen} = {Len(pp)}
    /\ pp[Len(pp)].name = "toneMappingPass"
    /\ ~ppLog.toggled =>
           \A i \in DOMAIN pp :
               pp[i].enabled <=> pp[i].name \notin {"fxaaPass", "lensDirtPass"}

\* anti-aliasing turned on and bloom turned off, the chain in its order
C20_EffectsToggled ==
    /\ ppLog.toggled
    /\ \E i \in DOMAIN pp : pp[i].name = "fxaaPass" /\ pp[i].enabled
    /\ \E i \in DOMAIN pp : pp[i].name = "bloomPass" /\ ~pp[i].enabled
    /\ [i \in DOMAIN pp |-> pp[i].name] = PassOrder
    /\ pp[Len(pp)].renderToScreen
====
